---- MODULE Spec2Model ----
(***************************************************************************)
(* Charmed: the alarm registry (lib.rs), its trigger matching (lib.rs,     *)
(* alarm.rs) and its JSON persistence (storage.rs).                        *)
(***************************************************************************)
EXTENDS Integers, Sequences, FiniteSets, TLC

VARIABLES
    phase,      \* "boot": process started, setup not yet run; "running"
    alarms,     \* AppState.alarms: the Vec<AlarmEntry> behind the Mutex
    file,       \* the content of <app_data_dir>/alarms.json
    nextId,     \* number of uuids handed out so far
    call,       \* the last command invoked and its arguments
    ret,        \* what that command returned
    pre,        \* the registry, the file and the music-service client as
                \* they were before that command
    streak,     \* 2 if that command repeats the successful command before
                \* it (same command, same argument), else 1
    faults,     \* number of saves that failed since the last one that succeeded
    synced,     \* the process has read the file at startup or written it
    saved,      \* io: how the persistence step of the last command ended
                \* ("none": it had none); kept: the collection written by the
                \* last save that succeeded
    spotify_client, \* AppState.spotify_client: the Option<SpotifyClient>
    audio,      \* audio.rs AUDIO_STATE: "none", or the state of its sink
    wire,       \* the requests the last command sent to the music service
    mutex,      \* holder of the Mutex of AppState.alarms (0: free)
    th,         \* per thread: position and locals of its command in progress
    lin         \* the registry had the commands run one at a time, in the
                \* order in which they took the Mutex

vars == <<phase, alarms, file, nextId, faults, synced, saved, call, ret, pre,
          streak, spotify_client, audio, wire, mutex, th, lin>>

(***************************************************************************)
(* Bounds.                                                                 *)
(***************************************************************************)
MaxAlarms == 2      \* longest registry explored
MaxIds == 2         \* uuids generated in one behaviour
MaxSaveFaults == 1  \* saves that fail in a row
MaxThreadOps == 2   \* commands each concurrent thread issues

(***************************************************************************)
(* Strings.  A string is a TLA+ string; Chars gives the characters of the  *)
(* strings whose content the program inspects (the time strings).          *)
(***************************************************************************)
Chars(s) ==
    CASE s = "07:30" -> <<"0", "7", ":", "3", "0">>
      [] s = "24:00" -> <<"2", "4", ":", "0", "0">>
      [] s = "07h30" -> <<"0", "7", "h", "3", "0">>
      [] s = "00:00" -> <<"0", "0", ":", "0", "0">>
      [] s = "23:59" -> <<"2", "3", ":", "5", "9">>

DigitChars == <<"0", "1", "2", "3", "4", "5", "6", "7", "8", "9">>

IsDigit(c) == \E i \in 1..10 : DigitChars[i] = c

DigitVal(c) == (CHOOSE i \in 1..10 : DigitChars[i] = c) - 1

\* str::trim_start, as chrono applies it before a numeric item
RECURSIVE TrimStart(_)
TrimStart(cs) ==
    IF cs # <<>> /\ Head(cs) = " " THEN TrimStart(Tail(cs)) ELSE cs

\* chrono scan::number(s, 1, 2): one or two leading digits
ScanNumber(cs) ==
    IF cs = <<>> \/ ~IsDigit(cs[1])
    THEN [ok |-> FALSE, v |-> 0, rest |-> cs]
    ELSE IF Len(cs) >= 2 /\ IsDigit(cs[2])
         THEN [ok |-> TRUE, v |-> 10 * DigitVal(cs[1]) + DigitVal(cs[2]),
               rest |-> SubSeq(cs, 3, Len(cs))]
         ELSE [ok |-> TRUE, v |-> DigitVal(cs[1]), rest |-> Tail(cs)]

\* ParseHM that lets the hour 24 through
ParseHM_hour24(s) ==
    LET hh == ScanNumber(TrimStart(Chars(s)))
        afterColon == IF hh.rest # <<>> /\ Head(hh.rest) = ":"
                      THEN Tail(hh.rest) ELSE <<"?">>
        mm == ScanNumber(TrimStart(afterColon))
    IN  IF hh.ok /\ hh.v <= 24
           /\ hh.rest # <<>> /\ Head(hh.rest) = ":"
           /\ mm.ok /\ mm.v <= 59
           /\ mm.rest = <<>>
        THEN [ok |-> TRUE, h |-> hh.v, m |-> mm.v]
        ELSE [ok |-> FALSE, h |-> 0, m |-> 0]

\* NaiveTime::parse_from_str(s, "%H:%M")
ParseHM(s) ==
    LET hh == ScanNumber(TrimStart(Chars(s)))
        afterColon == IF hh.rest # <<>> /\ Head(hh.rest) = ":"
                      THEN Tail(hh.rest) ELSE <<"?">>
        mm == ScanNumber(TrimStart(afterColon))
    IN  IF hh.ok /\ hh.v <= 23
           /\ hh.rest # <<>> /\ Head(hh.rest) = ":"
           /\ mm.ok /\ mm.v <= 59
           /\ mm.rest = <<>>
        THEN [ok |-> TRUE, h |-> hh.v, m |-> mm.v]
        ELSE [ok |-> FALSE, h |-> 0, m |-> 0]

\* now.format("%H:%M"): zero-padded hour and minute
FormatHM(now) ==
    << DigitChars[(now.h \div 10) + 1], DigitChars[(now.h % 10) + 1], ":",
       DigitChars[(now.m \div 10) + 1], DigitChars[(now.m % 10) + 1] >>

\* alarm.rs weekday_to_string, and the match of check_alarms; chrono::Weekday
\* is numbered Mon = 0 .. Sun = 6
weekday_to_string(day) ==
    CASE day = 0 -> "Monday"
      [] day = 1 -> "Tuesday"
      [] day = 2 -> "Wednesday"
      [] day = 3 -> "Thursday"
      [] day = 4 -> "Friday"
      [] day = 5 -> "Saturday"
      [] day = 6 -> "Sunday"

(***************************************************************************)
(* AlarmEntry and its JSON form (serde derive, serde_json).                *)
(***************************************************************************)
\* uuid::Uuid::new_v4().to_string(): the n-th uuid generated
Uuid(n) ==
    CASE n = 1 -> "uuid-1"
      [] n = 2 -> "uuid-2"
      [] n = 3 -> "uuid-3"
      [] n = 4 -> "uuid-4"
      [] n = 5 -> "uuid-5"
      [] OTHER -> "uuid-6"

U8Max == 255
U16Max == 65535

\* the volume bound of set_alarm's volume.min(100)
VolumeCap == 100

\* JSON values
JStr(s) == <<"str", s>>
JNum(n) == <<"num", n>>
JBool(b) == <<"bool", b>>
JArr(elems) == <<"arr", elems>>
JObj(members) == <<"obj", members>>

\* #[derive(Serialize)] for AlarmEntry: the fields in declaration order
SerializeEntry(a) ==
    JObj(<< <<"id", JStr(a.id)>>,
            <<"time", JStr(a.time)>>,
            <<"playlist_name", JStr(a.playlist_name)>>,
            <<"playlist_uri", JStr(a.playlist_uri)>>,
            <<"volume", JNum(a.volume)>>,
            <<"active", JBool(a.active)>>,
            <<"days", JArr([i \in 1..Len(a.days) |-> JStr(a.days[i])])>>,
            <<"fade_in", JBool(a.fade_in)>>,
            <<"fade_in_duration", JNum(a.fade_in_duration)>> >>)

\* serde_json::to_string_pretty(alarms): the document written
ToJson(as) == JArr([i \in 1..Len(as) |-> SerializeEntry(as[i])])

\* the members of a JSON object that carry key k
Members(obj, k) == { i \in 1..Len(obj[2]) : obj[2][i][1] = k }

\* one field of the derived Deserialize: present once and of the given type
HasField(obj, k, tag) ==
    /\ Cardinality(Members(obj, k)) = 1
    /\ \A i \in Members(obj, k) : obj[2][i][2][1] = tag

Field(obj, k) == obj[2][CHOOSE i \in Members(obj, k) : TRUE][2][2]

IsStrArr(elems) == \A i \in 1..Len(elems) : elems[i][1] = "str"

\* #[derive(Deserialize)] for AlarmEntry: accepts a JSON object or not
EntryDecodes(v) ==
    /\ v[1] = "obj"
    /\ HasField(v, "id", "str")
    /\ HasField(v, "time", "str")
    /\ HasField(v, "playlist_name", "str")
    /\ HasField(v, "playlist_uri", "str")
    /\ HasField(v, "volume", "num")
    /\ Field(v, "volume") \in 0..U8Max
    /\ HasField(v, "active", "bool")
    /\ HasField(v, "days", "arr")
    /\ IsStrArr(Field(v, "days"))
    /\ HasField(v, "fade_in", "bool")
    /\ HasField(v, "fade_in_duration", "num")
    /\ Field(v, "fade_in_duration") \in 0..U16Max

\* DeserializeEntry that loses the active flag
DeserializeEntry_active(v) ==
    [ id |-> Field(v, "id"),
      time |-> Field(v, "time"),
      playlist_name |-> Field(v, "playlist_name"),
      playlist_uri |-> Field(v, "playlist_uri"),
      volume |-> Field(v, "volume"),
      active |-> TRUE,
      days |-> [i \in 1..Len(Field(v, "days")) |-> Field(v, "days")[i][2]],
      fade_in |-> Field(v, "fade_in"),
      fade_in_duration |-> Field(v, "fade_in_duration") ]

\* the AlarmEntry the derived Deserialize builds from a JSON object
DeserializeEntry(v) ==
    [ id |-> Field(v, "id"),
      time |-> Field(v, "time"),
      playlist_name |-> Field(v, "playlist_name"),
      playlist_uri |-> Field(v, "playlist_uri"),
      volume |-> Field(v, "volume"),
      active |-> Field(v, "active"),
      days |-> [i \in 1..Len(Field(v, "days")) |-> Field(v, "days")[i][2]],
      fade_in |-> Field(v, "fade_in"),
      fade_in_duration |-> Field(v, "fade_in_duration") ]

\* serde_json::from_str::<Vec<AlarmEntry>>(content)
FromJson(doc) ==
    IF doc[1] = "arr" /\ \A i \in 1..Len(doc[2]) : EntryDecodes(doc[2][i])
    THEN [ok |-> TRUE,
          val |-> [i \in 1..Len(doc[2]) |-> DeserializeEntry(doc[2][i])]]
    ELSE [ok |-> FALSE, val |-> <<>>]

(***************************************************************************)
(* storage.rs.  The file is absent, or holds a text: a JSON document or    *)
(* bytes that are no JSON document.                                        *)
(***************************************************************************)
Absent == <<"absent">>
Text(doc) == <<"text", doc>>
Garbage == <<"garbage">>

\* outcomes of the file system calls of save_alarms and of the lookup of
\* the data directory that precedes it
SaveOutcomes == {"ok", "nodir", "fail", "torn"}

\* outcomes of fs::read_to_string in load_alarms
ReadOutcomes == {"ok", "fail"}

\* save_alarms whose failure to create the directory or to open the file
\* has already emptied the file
save_alarms_truncating(f, as, io) ==
    CASE io = "ok"   -> Text(ToJson(as))
      [] OTHER       -> Text(Garbage)

\* save_alarms(data_dir, alarms): the file it leaves
save_alarms(f, as, io) ==
    CASE io = "ok"   -> Text(ToJson(as))
      [] io = "torn" -> Text(Garbage)      \* fs::write truncated, then failed
      [] OTHER       -> f                  \* create_dir_all or open failed

\* load_alarms that reports a missing file as an error
load_alarms_strict(f, io) ==
    IF f = Absent \/ io = "fail" THEN [ok |-> FALSE, val |-> <<>>]
    ELSE FromJson(f[2])

\* load_alarms with the test of file_path.exists() inverted
load_alarms_inverted(f, io) ==
    IF f # Absent THEN [ok |-> TRUE, val |-> <<>>]
    ELSE [ok |-> FALSE, val |-> <<>>]

\* load_alarms(data_dir)
load_alarms(f, io) ==
    IF f = Absent THEN [ok |-> TRUE, val |-> <<>>]
    ELSE IF io = "fail" THEN [ok |-> FALSE, val |-> <<>>]
    ELSE FromJson(f[2])

\* Persist that looks the directory up and saves nothing
Persist_skip(f, as, io) == f

\* the persistence step of set_alarm, toggle_alarm and delete_alarm:
\* save only if app_data_dir() is Ok, and the result of save is dropped
Persist(f, as, io) == IF io = "nodir" THEN f ELSE save_alarms(f, as, io)

(***************************************************************************)
(* spotify.rs and audio.rs.  A SpotifyClient is its two flags: whether it  *)
(* holds the rspotify client (client) and authenticated; the Option around *)
(* it in AppState is the flag some.                                        *)
(***************************************************************************)
\* a request to the music service
Request(name, arg) == [req |-> name, arg |-> arg]

\* Mutex::new(None)
NoClient == [some |-> FALSE, client |-> FALSE, authenticated |-> FALSE]

\* SpotifyClient::new(client_id, client_secret)
SpotifyClient_new == [some |-> TRUE, client |-> FALSE, authenticated |-> FALSE]

\* SpotifyClient::get_auth_url: keeps the rspotify client it built
get_auth_url(c) == [c EXCEPT !.client = TRUE]

\* outcomes of request_token
TokenOutcomes == {"ok", "fail"}

\* complete_auth that sets the flag before it looks at what request_token
\* returned
complete_auth_eager(c, token) ==
    IF c.client
    THEN [ok |-> token = "ok", c |-> [c EXCEPT !.authenticated = TRUE],
          sent |-> <<Request("token", "-")>>]
    ELSE [ok |-> FALSE, c |-> c, sent |-> <<>>]

\* SpotifyClient::complete_auth(code): its result, the client after it and
\* the requests it sent
complete_auth(c, token) ==
    IF c.client
    THEN IF token = "ok"
         THEN [ok |-> TRUE, c |-> [c EXCEPT !.authenticated = TRUE],
               sent |-> <<Request("token", "-")>>]
         ELSE [ok |-> FALSE, c |-> c, sent |-> <<Request("token", "-")>>]
    ELSE [ok |-> FALSE, c |-> c, sent |-> <<>>]

\* SpotifyClient::is_authenticated
is_authenticated(c) == c.authenticated

\* what the remote service answers to play_playlist: device() fails, no
\* device is active, start_context_playback fails, or playback starts
RemoteOutcomes == {"ok", "nodevices", "inactive", "fail"}

\* PlaylistId::from_id of the uri less its prefix "spotify:playlist:": an
\* id is letters and digits, so a uri of another kind keeps its colons and
\* is refused
PlaylistIdOk(playlist_uri) ==
    playlist_uri \in {"spotify:playlist:0", "spotify:playlist:1",
                      "spotify:playlist:2"}

\* play_playlist that reports Ok when start_context_playback has failed
play_playlist_swallow(c, playlist_uri, remote) ==
    LET unsent == [ok |-> FALSE, started |-> FALSE, sent |-> <<>>]
        refused == [ok |-> FALSE, started |-> FALSE,
                    sent |-> <<Request("devices", "-")>>]
        played(ok, started) ==
            [ok |-> ok, started |-> started,
             sent |-> <<Request("devices", "-"),
                        Request("play", playlist_uri)>>]
    IN  IF c.client
        THEN IF ~c.authenticated THEN unsent
             ELSE IF remote = "nodevices" THEN refused
             ELSE IF remote = "inactive" THEN refused
             ELSE IF ~PlaylistIdOk(playlist_uri) THEN refused
             ELSE IF remote = "fail" THEN played(TRUE, FALSE)
             ELSE played(TRUE, TRUE)
        ELSE unsent

\* SpotifyClient::play_playlist(playlist_uri): its result, whether the
\* remote service started the playback, and the requests it sent
play_playlist(c, playlist_uri, remote) ==
    LET unsent == [ok |-> FALSE, started |-> FALSE, sent |-> <<>>]
        refused == [ok |-> FALSE, started |-> FALSE,
                    sent |-> <<Request("devices", "-")>>]
        played(ok, started) ==
            [ok |-> ok, started |-> started,
             sent |-> <<Request("devices", "-"),
                        Request("play", playlist_uri)>>]
    IN  IF c.client
        THEN IF ~c.authenticated THEN unsent
             ELSE IF remote = "nodevices" THEN refused
             ELSE IF remote = "inactive" THEN refused
             ELSE IF ~PlaylistIdOk(playlist_uri) THEN refused
             ELSE IF remote = "fail" THEN played(FALSE, FALSE)
             ELSE played(TRUE, TRUE)
        ELSE unsent

\* the body of the command play_spotify_playlist
PlayRemote(c, playlist_uri, remote) ==
    IF c.some THEN play_playlist(c, playlist_uri, remote)
    ELSE [ok |-> FALSE, started |-> FALSE, sent |-> <<>>]

\* outcomes of a request for the playlists or for the volume
ApiOutcomes == {"ok", "fail"}

\* SpotifyClient::get_playlists: its result and the requests it sent
get_playlists(c, api) ==
    IF c.client
    THEN IF ~c.authenticated THEN [ok |-> FALSE, sent |-> <<>>]
         ELSE IF api = "fail"
              THEN [ok |-> FALSE, sent |-> <<Request("playlists", "-")>>]
         ELSE [ok |-> TRUE, sent |-> <<Request("playlists", "-")>>]
    ELSE [ok |-> FALSE, sent |-> <<>>]

\* SpotifyClient::set_volume(volume_percent): its result and the requests
\* it sent, the volume request carrying volume_percent.min(100)
set_volume(c, volume_percent, api) ==
    LET volume == IF volume_percent <= 100 THEN volume_percent ELSE 100
    IN  IF c.client
        THEN IF ~c.authenticated THEN [ok |-> FALSE, sent |-> <<>>]
             ELSE IF api = "fail"
                  THEN [ok |-> FALSE, sent |-> <<Request("volume", volume)>>]
             ELSE [ok |-> TRUE, sent |-> <<Request("volume", volume)>>]
        ELSE [ok |-> FALSE, sent |-> <<>>]

\* the body of the command is_spotify_authenticated
Authenticated(c) == c.some /\ is_authenticated(c)

\* outcomes of opening the audio output in play_alarm_sound
AudioOutcomes == {"ok", "nostream", "nosink"}

\* audio::play_alarm_sound: the sink that was playing is stopped first and
\* stays in AUDIO_STATE if the new one cannot be made
play_alarm_sound(au, out) ==
    IF out = "ok" THEN [ok |-> TRUE, audio |-> "playing"]
    ELSE [ok |-> FALSE, audio |-> IF au = "none" THEN "none" ELSE "stopped"]

\* audio::stop_alarm_sound
stop_alarm_sound(au) == [ok |-> TRUE, audio |-> "none"]

(***************************************************************************)
(* lib.rs: the commands on the registry, as functions of the registry.     *)
(***************************************************************************)
Min(a, b) == IF a <= b THEN a ELSE b

\* NewAlarm without the volume.min(100)
NewAlarm_unclamped(in, id) ==
    [ id |-> id,
      time |-> in.time,
      playlist_name |-> in.playlist_name,
      playlist_uri |-> in.playlist_uri,
      volume |-> in.volume,
      active |-> TRUE,
      days |-> in.days,
      fade_in |-> in.fade_in,
      fade_in_duration |-> in.fade_in_duration ]

\* the AlarmEntry built by set_alarm from its arguments
NewAlarm(in, id) ==
    [ id |-> id,
      time |-> in.time,
      playlist_name |-> in.playlist_name,
      playlist_uri |-> in.playlist_uri,
      volume |-> Min(in.volume, VolumeCap),
      active |-> TRUE,
      days |-> in.days,
      fade_in |-> in.fade_in,
      fade_in_duration |-> in.fade_in_duration ]

\* Restore that validates what it loads and drops the records whose
\* volume is above the cap
Restore_valid(as, loaded) == SelectSeq(loaded, LAMBDA a : a.volume <= VolumeCap)

\* *stored_alarms = alarms, in the setup closure of run()
Restore(as, loaded) == loaded

\* Push that inserts the record at the front
Push_front(as, a) == <<a>> \o as

\* alarms.push(alarm.clone())
Push(as, a) == Append(as, a)

\* alarms.iter_mut().find(|a| a.id == alarm_id): position of the first
\* record with that id, 0 if there is none
FindAlarm(as, id) ==
    IF \E i \in 1..Len(as) : as[i].id = id
    THEN CHOOSE i \in 1..Len(as) :
            /\ as[i].id = id
            /\ \A j \in 1..(i - 1) : as[j].id # id
    ELSE 0

\* Flip that flips every record that has the id of the record found
Flip_all(as, i) ==
    [ j \in 1..Len(as) |->
        IF as[j].id = as[i].id
        THEN [as[j] EXCEPT !.active = ~as[j].active]
        ELSE as[j] ]

\* Flip that switches the record off whatever its state
Flip_off(as, i) == [as EXCEPT ![i].active = FALSE]

\* alarm.active = !alarm.active on the record found
Flip(as, i) == [as EXCEPT ![i].active = ~as[i].active]

\* alarms.retain(|a| a.id != alarm_id)
Retain(as, id) == SelectSeq(as, LAMBDA a : a.id # id)

\* alarms.len() < before, the test of delete_alarm, with <= for <
Shrunk_or_same(as, before) == Len(as) <= before

\* alarms.len() < before: delete_alarm removed something
Shrunk(as, before) == Len(as) < before

\* Matches without the test of the days
Matches_any_day(a, current_time, today) ==
    /\ a.active
    /\ Chars(a.time) = current_time

\* the condition of the loop of check_alarms
Matches(a, current_time, today) ==
    /\ a.active
    /\ Chars(a.time) = current_time
    /\ (a.days = <<>> \/ \E i \in 1..Len(a.days) : a.days[i] = today)

\* FirstMatch that keeps scanning and returns the last record that matches
FirstMatch_last(as, now) ==
    LET current_time == FormatHM(now)
        today == weekday_to_string(now.wd)
        hits == { i \in 1..Len(as) : Matches(as[i], current_time, today) }
    IN  IF hits = {} THEN 0
        ELSE CHOOSE i \in hits : \A j \in hits : i >= j

\* the loop of check_alarms: position of the record returned, 0 for None
FirstMatch(as, now) ==
    LET current_time == FormatHM(now)
        today == weekday_to_string(now.wd)
        hits == { i \in 1..Len(as) : Matches(as[i], current_time, today) }
    IN  IF hits = {} THEN 0
        ELSE CHOOSE i \in hits : \A j \in hits : i <= j

\* Scanned that switches off the record check_alarms returns
Scanned_disarm(as, i) ==
    IF i = 0 THEN as ELSE [as EXCEPT ![i].active = FALSE]

\* the registry as check_alarms leaves it, having returned the record at
\* position i (0: none): its guard is not `mut` and it iterates with iter()
Scanned(as, i) == as

\* alarm.rs should_trigger, with the instant it reads as an argument
should_trigger(a, now) ==
    IF ~a.active THEN FALSE
    ELSE IF Chars(a.time) # FormatHM(now) THEN FALSE
    ELSE IF a.days # <<>>
            /\ ~(\E i \in 1..Len(a.days) : a.days[i] = weekday_to_string(now.wd))
         THEN FALSE
    ELSE TRUE

(***************************************************************************)
(* Inputs.                                                                 *)
(***************************************************************************)
\* arguments of set_alarm: an accepted time with a volume above the cap and
\* no days, the same time with a volume below the cap and a day given
\* twice, and two rejected times
AlarmInputs ==
    { [time |-> "07:30", playlist_name |-> "Chill",
       playlist_uri |-> "spotify:playlist:1", volume |-> 150,
       days |-> <<>>, fade_in |-> TRUE, fade_in_duration |-> 300],
      [time |-> "07:30", playlist_name |-> "Rock",
       playlist_uri |-> "spotify:playlist:2", volume |-> 40,
       days |-> <<"Monday", "Monday">>, fade_in |-> FALSE,
       fade_in_duration |-> 0],
      [time |-> "24:00", playlist_name |-> "Chill",
       playlist_uri |-> "spotify:playlist:1", volume |-> 150,
       days |-> <<>>, fade_in |-> FALSE, fade_in_duration |-> 0],
      [time |-> "07h30", playlist_name |-> "Rock",
       playlist_uri |-> "spotify:playlist:2", volume |-> 100,
       days |-> <<"Monday">>, fade_in |-> FALSE, fade_in_duration |-> 0] }

\* a record as a hand-written alarms.json may hold it
FileEntry(id, volume, active) ==
    [ id |-> id, time |-> "07:30", playlist_name |-> "Old",
      playlist_uri |-> "spotify:playlist:0", volume |-> volume,
      active |-> active, days |-> <<"Monday">>,
      fade_in |-> FALSE, fade_in_duration |-> 0 ]

\* alarms.json as the process may find it at its first start: no file, or
\* a hand-written document that decodes to two records
InitFiles ==
    { Absent,
      Text(ToJson(<< FileEntry("a", 150, TRUE), FileEntry("a", 40, FALSE) >>)) }

\* alarm ids passed to toggle_alarm and delete_alarm
IdInputs == { Uuid(n) : n \in 1..MaxIds } \cup {"a"}

\* the instants check_alarms may read from the clock
Nows ==
    { [h |-> 7, m |-> 30, wd |-> 0], [h |-> 7, m |-> 30, wd |-> 1],
      [h |-> 7, m |-> 31, wd |-> 0] }

Threads == {1, 2}

\* the arguments of the commands the concurrent threads issue
ConcAlarmInputs == { in \in AlarmInputs : in.playlist_name = "Chill" }
ConcIdInputs == {"a", Uuid(1)}
ConcNows == { now \in Nows : now.m = 30 /\ now.wd = 0 }

NoArg == "-"
NoRet == [ok |-> TRUE, val |-> "-"]
Ok(v) == [ok |-> TRUE, val |-> v]
Err == [ok |-> FALSE, val |-> "error"]

\* a thread between two commands, after n commands
IdleAfter(n) ==
    [pc |-> "idle", op |-> "-", arg |-> NoArg, n |-> n, loc |-> NoArg,
     res |-> NoRet, exp |-> NoRet]

Idle == IdleAfter(0)

(***************************************************************************)
(* The commands, one action per IPC command, and process start and stop.   *)
(***************************************************************************)
\* what every command records about itself
Log(op, arg, r) ==
    /\ call' = [op |-> op, arg |-> arg]
    /\ ret' = r
    /\ pre' = [alarms |-> alarms, file |-> file, client |-> spotify_client]
    /\ streak' = IF r.ok /\ ret.ok /\ call.op = op /\ call.arg = arg
                 THEN 2 ELSE 1

\* the file system outcomes still allowed: at most MaxSaveFaults failing
\* saves in a row
Outcomes == IF faults < MaxSaveFaults THEN SaveOutcomes ELSE {"ok"}

Fault(io) ==
    /\ faults' = IF io = "ok" THEN 0 ELSE faults + 1
    /\ synced' = IF io = "ok" THEN TRUE ELSE synced
    /\ saved' = [io |-> io, kept |-> IF io = "ok" THEN alarms' ELSE saved.kept]

\* the command has no persistence step
NoSave == saved' = [saved EXCEPT !.io = "none"]

\* the process as manage(AppState { .. }) leaves it, the file as found
Boot ==
    /\ phase = "boot"
    /\ alarms = <<>>
    /\ file \in InitFiles
    /\ nextId = 0
    /\ faults = 0
    /\ synced = FALSE
    /\ saved = [io |-> "none", kept |-> load_alarms(file, "ok").val]
    /\ pre = [alarms |-> <<>>, file |-> file, client |-> NoClient]
    /\ streak = 1
    /\ spotify_client = NoClient
    /\ audio = "none"
    /\ wire = <<>>
    /\ mutex = 0
    /\ th = [t \in Threads |-> Idle]
    /\ lin = <<>>

Init ==
    /\ Boot
    /\ call = [op |-> "manage", arg |-> NoArg]
    /\ ret = NoRet

\* run(): the setup closure
Setup ==
    /\ phase = "boot"
    /\ \E io \in ReadOutcomes \cup {"nodir"} :
          LET loaded == IF io = "nodir" THEN Err ELSE load_alarms(file, io)
          IN  /\ alarms' = IF loaded.ok THEN Restore(alarms, loaded.val)
                            ELSE alarms
              /\ synced' = loaded.ok
              /\ Log("setup", io, [ok |-> loaded.ok, val |-> "-"])
    /\ NoSave
    /\ phase' = "running"
    /\ lin' = alarms'
    /\ UNCHANGED <<file, nextId, faults, mutex, th, spotify_client, audio,
                   wire>>

\* the process ends; the next one starts from manage(AppState { Vec::new() })
Stop ==
    /\ phase = "running"
    /\ \A t \in Threads : th[t].pc = "idle"
    /\ phase' = "boot"
    /\ alarms' = <<>>
    /\ lin' = <<>>
    /\ Log("stop", NoArg, NoRet)
    /\ NoSave
    /\ UNCHANGED <<file, nextId, faults, synced, mutex, th, spotify_client,
                   audio, wire>>

set_alarm(in) ==
    /\ phase = "running"
    /\ IF ~ParseHM(in.time).ok
       THEN /\ Log("set_alarm", in, Err)
            /\ NoSave
            /\ UNCHANGED <<alarms, file, nextId, faults, synced>>
       ELSE /\ nextId < MaxIds
            /\ Len(alarms) < MaxAlarms
            /\ LET alarm == NewAlarm(in, Uuid(nextId + 1))
               IN  /\ alarms' = Push(alarms, alarm)
                   /\ nextId' = nextId + 1
                   /\ Log("set_alarm", in, Ok(alarm))
                   /\ \E io \in Outcomes :
                         /\ file' = Persist(file, alarms', io)
                         /\ Fault(io)
    /\ lin' = alarms'
    /\ UNCHANGED <<phase, mutex, th, spotify_client, audio, wire>>

get_alarms ==
    /\ phase = "running"
    /\ Log("get_alarms", NoArg, Ok(alarms))
    /\ NoSave
    /\ UNCHANGED <<phase, alarms, file, nextId, faults, synced, mutex, th,
                   lin, spotify_client, audio, wire>>

toggle_alarm(alarm_id) ==
    /\ phase = "running"
    /\ LET i == FindAlarm(alarms, alarm_id)
       IN  IF i # 0
           THEN /\ alarms' = Flip(alarms, i)
                /\ Log("toggle_alarm", alarm_id, Ok(alarms'[i].active))
                /\ \E io \in Outcomes :
                      /\ file' = Persist(file, alarms', io)
                      /\ Fault(io)
           ELSE /\ Log("toggle_alarm", alarm_id, Err)
                /\ NoSave
                /\ UNCHANGED <<alarms, file, faults, synced>>
    /\ lin' = alarms'
    /\ UNCHANGED <<phase, nextId, mutex, th, spotify_client, audio, wire>>

delete_alarm(alarm_id) ==
    /\ phase = "running"
    /\ LET before == Len(alarms)
       IN  /\ alarms' = Retain(alarms, alarm_id)
           /\ IF Shrunk(alarms', before)
              THEN /\ Log("delete_alarm", alarm_id, Ok("-"))
                   /\ \E io \in Outcomes :
                         /\ file' = Persist(file, alarms', io)
                         /\ Fault(io)
              ELSE /\ Log("delete_alarm", alarm_id, Err)
                   /\ NoSave
                   /\ UNCHANGED <<file, faults, synced>>
    /\ lin' = alarms'
    /\ UNCHANGED <<phase, nextId, mutex, th, spotify_client, audio, wire>>

check_alarms(now) ==
    /\ phase = "running"
    /\ LET i == FirstMatch(alarms, now)
       IN  /\ Log("check_alarms", now,
                  IF i = 0 THEN Ok(<<>>) ELSE Ok(<<alarms[i]>>))
           /\ alarms' = Scanned(alarms, i)
    /\ NoSave
    /\ lin' = alarms'
    /\ UNCHANGED <<phase, file, nextId, faults, synced, mutex, th,
                   spotify_client, audio, wire>>

Next ==
    \/ Setup
    \/ Stop
    \/ \E in \in AlarmInputs : set_alarm(in)
    \/ get_alarms
    \/ \E id \in IdInputs : toggle_alarm(id)
    \/ \E id \in IdInputs : delete_alarm(id)
    \/ \E now \in Nows : check_alarms(now)

Spec == Init /\ [][Next]_vars

(***************************************************************************)
(* The same commands, statement by statement, run by concurrent threads    *)
(* (tauri runs each invocation on a thread of its pool).  A command holds  *)
(* the MutexGuard from its lock() to its return.                           *)
(***************************************************************************)
\* the positions at which a thread holds the MutexGuard
Critical == {"push", "find", "flip", "retain", "clone", "scan", "save",
             "write", "return"}

Holding == { t \in Threads : th[t].pc \in Critical }

\* state.alarms.lock() succeeds for the caller when no guard is alive
CanLock_always == TRUE

CanLock == mutex = 0

Goto(t, pc) == th' = [th EXCEPT ![t].pc = pc]

\* a thread receives a command; set_alarm validates the time and builds
\* the AlarmEntry before it takes the lock
Begin(t) ==
    /\ phase = "running"
    /\ th[t].pc = "idle"
    /\ th[t].n < MaxThreadOps
    /\ \/ \E in \in ConcAlarmInputs :
             IF ~ParseHM(in.time).ok
             THEN /\ th' = [th EXCEPT ![t] = IdleAfter(th[t].n + 1)]
                  /\ UNCHANGED nextId
             ELSE /\ nextId < MaxIds
                  /\ Len(alarms) + Cardinality({u \in Threads :
                        th[u].op = "set_alarm"}) < MaxAlarms
                  /\ nextId' = nextId + 1
                  /\ th' = [th EXCEPT ![t] =
                        [@ EXCEPT !.pc = "lock", !.op = "set_alarm",
                                  !.arg = in,
                                  !.loc = NewAlarm(in, Uuid(nextId + 1))]]
       \/ /\ \E id \in ConcIdInputs, op \in {"toggle_alarm", "delete_alarm"} :
                th' = [th EXCEPT ![t] =
                         [@ EXCEPT !.pc = "lock", !.op = op, !.arg = id]]
          /\ UNCHANGED nextId
       \/ /\ th' = [th EXCEPT ![t] =
                      [@ EXCEPT !.pc = "lock", !.op = "get_alarms"]]
          /\ UNCHANGED nextId
       \/ /\ \E now \in ConcNows :
                th' = [th EXCEPT ![t] =
                         [@ EXCEPT !.pc = "lock", !.op = "check_alarms",
                                   !.arg = now]]
          /\ UNCHANGED nextId
    /\ UNCHANGED <<phase, alarms, file, faults, synced, saved, call, ret, pre,
                   streak, mutex, lin, spotify_client, audio, wire>>

\* what the command returns, and the registry it leaves, when it runs alone
\* on the registry as
Alone(op, arg, loc, as) ==
    CASE op = "set_alarm" ->
            [alarms |-> Push(as, loc), res |-> Ok(loc)]
      [] op = "toggle_alarm" ->
            LET i == FindAlarm(as, arg)
            IN  IF i = 0 THEN [alarms |-> as, res |-> Err]
                ELSE [alarms |-> Flip(as, i), res |-> Ok(~as[i].active)]
      [] op = "delete_alarm" ->
            IF Shrunk(Retain(as, arg), Len(as))
            THEN [alarms |-> Retain(as, arg), res |-> Ok("-")]
            ELSE [alarms |-> as, res |-> Err]
      [] op = "get_alarms" -> [alarms |-> as, res |-> Ok(as)]
      [] op = "check_alarms" ->
            LET i == FirstMatch(as, arg)
            IN  [alarms |-> as,
                 res |-> IF i = 0 THEN Ok(<<>>) ELSE Ok(<<as[i]>>)]

\* state.alarms.lock()
Lock(t) ==
    /\ th[t].pc = "lock"
    /\ CanLock
    /\ mutex' = t
    /\ LET me == th[t]
           alone == Alone(me.op, me.arg, me.loc, lin)
       IN  /\ lin' = alone.alarms
           /\ th' = [th EXCEPT ![t] =
                 [@ EXCEPT !.exp = alone.res,
                           !.pc = CASE me.op = "set_alarm" -> "push"
                                    [] me.op = "toggle_alarm" -> "find"
                                    [] me.op = "delete_alarm" -> "retain"
                                    [] me.op = "get_alarms" -> "clone"
                                    [] me.op = "check_alarms" -> "scan"]]
    /\ UNCHANGED <<phase, alarms, file, nextId, faults, synced, saved, call,
                   ret, pre, streak, spotify_client, audio, wire>>

\* set_alarm: alarms.push(alarm.clone())
StepPush(t) ==
    /\ th[t].pc = "push"
    /\ alarms' = Push(alarms, th[t].loc)
    /\ th' = [th EXCEPT ![t] = [@ EXCEPT !.pc = "save",
                                         !.res = Ok(th[t].loc)]]
    /\ UNCHANGED <<phase, file, nextId, faults, synced, saved, call, ret, pre,
                   streak, mutex, lin, spotify_client, audio, wire>>

\* toggle_alarm: iter_mut().find(..), and the read of alarm.active
StepFind(t) ==
    /\ th[t].pc = "find"
    /\ LET i == FindAlarm(alarms, th[t].arg)
       IN  th' = [th EXCEPT ![t] =
                    IF i = 0
                    THEN [@ EXCEPT !.pc = "return", !.res = Err]
                    ELSE [@ EXCEPT !.pc = "flip",
                                   !.loc = [i |-> i, b |-> alarms[i].active]]]
    /\ UNCHANGED <<phase, alarms, file, nextId, faults, synced, saved, call,
                   ret, pre, streak, mutex, lin, spotify_client, audio, wire>>

\* toggle_alarm: the write of alarm.active = !alarm.active
StepFlip(t) ==
    /\ th[t].pc = "flip"
    /\ LET i == th[t].loc.i
           b == ~th[t].loc.b
       IN  /\ alarms' = IF i <= Len(alarms)
                        THEN [alarms EXCEPT ![i].active = b] ELSE alarms
           /\ th' = [th EXCEPT ![t] = [@ EXCEPT !.pc = "save",
                                                !.res = Ok(b)]]
    /\ UNCHANGED <<phase, file, nextId, faults, synced, saved, call, ret, pre,
                   streak, mutex, lin, spotify_client, audio, wire>>

\* delete_alarm: retain(..) and the test of the length
StepRetain(t) ==
    /\ th[t].pc = "retain"
    /\ alarms' = Retain(alarms, th[t].arg)
    /\ th' = [th EXCEPT ![t] =
                IF Shrunk(alarms', Len(alarms))
                THEN [@ EXCEPT !.pc = "save", !.res = Ok("-")]
                ELSE [@ EXCEPT !.pc = "return", !.res = Err]]
    /\ UNCHANGED <<phase, file, nextId, faults, synced, saved, call, ret, pre,
                   streak, mutex, lin, spotify_client, audio, wire>>

\* get_alarms: alarms.clone()
StepClone(t) ==
    /\ th[t].pc = "clone"
    /\ th' = [th EXCEPT ![t] = [@ EXCEPT !.pc = "return",
                                         !.res = Ok(alarms)]]
    /\ UNCHANGED <<phase, alarms, file, nextId, faults, synced, saved, call,
                   ret, pre, streak, mutex, lin, spotify_client, audio, wire>>

\* check_alarms: the loop
StepScan(t) ==
    /\ th[t].pc = "scan"
    /\ LET i == FirstMatch(alarms, th[t].arg)
       IN  th' = [th EXCEPT ![t] =
                    [@ EXCEPT !.pc = "return",
                              !.res = IF i = 0 THEN Ok(<<>>)
                                      ELSE Ok(<<alarms[i]>>)]]
    /\ UNCHANGED <<phase, alarms, file, nextId, faults, synced, saved, call,
                   ret, pre, streak, mutex, lin, spotify_client, audio, wire>>

\* app_data_dir(), then save_alarms up to serde_json::to_string_pretty
StepSave(t) ==
    /\ th[t].pc = "save"
    /\ \E io \in Outcomes :
          /\ faults' = IF io \in {"nodir", "fail"} THEN faults + 1 ELSE faults
          /\ saved' = IF io \in {"nodir", "fail"}
                       THEN [saved EXCEPT !.io = io] ELSE saved
          /\ th' = [th EXCEPT ![t] =
                IF io \in {"nodir", "fail"}
                THEN [@ EXCEPT !.pc = "return"]
                ELSE [@ EXCEPT !.pc = "write",
                               !.loc = [json |-> ToJson(alarms), io |-> io]]]
    /\ UNCHANGED <<phase, alarms, file, nextId, synced, call, ret, pre,
                   streak, mutex, lin, spotify_client, audio, wire>>

\* save_alarms: fs::write(&file_path, json)
StepWrite(t) ==
    /\ th[t].pc = "write"
    /\ file' = IF th[t].loc.io = "ok" THEN Text(th[t].loc.json)
               ELSE Text(Garbage)
    /\ synced' = IF th[t].loc.io = "ok" THEN TRUE ELSE synced
    /\ faults' = IF th[t].loc.io = "ok" THEN 0 ELSE faults + 1
    /\ saved' = [io |-> th[t].loc.io,
                 kept |-> IF th[t].loc.io = "ok" THEN alarms ELSE saved.kept]
    /\ Goto(t, "return")
    /\ UNCHANGED <<phase, alarms, nextId, call, ret, pre, streak, mutex, lin,
                   spotify_client, audio, wire>>

\* the command returns and its MutexGuard is dropped
Return(t) ==
    /\ th[t].pc = "return"
    /\ mutex' = IF mutex = t THEN 0 ELSE mutex
    /\ th' = [th EXCEPT ![t] = IdleAfter(th[t].n + 1)]
    /\ UNCHANGED <<phase, alarms, file, nextId, faults, synced, saved, call,
                   ret, pre, streak, lin, spotify_client, audio, wire>>

NextConc ==
    \/ Setup
    \/ \E t \in Threads :
          \/ Begin(t)
          \/ Lock(t)
          \/ StepPush(t)
          \/ StepFind(t)
          \/ StepFlip(t)
          \/ StepRetain(t)
          \/ StepClone(t)
          \/ StepScan(t)
          \/ StepSave(t)
          \/ StepWrite(t)
          \/ Return(t)

SpecConc == Init /\ [][NextConc]_vars

(***************************************************************************)
(* alarm.rs: the time left until an alarm, and its rendering.  The instant *)
(* Local::now() returns is its local wall-clock time h:m:s, whether it has *)
(* a fraction of a second, and the offset of local time from UTC (seconds).*)
(***************************************************************************)
MaxSeconds == 7261  \* longest duration rendered

DaySeconds == 86400

None == [ok |-> FALSE, val |-> "none"]

\* Some(v)
Some(v) == [ok |-> TRUE, val |-> v]

\* chrono::Weekday, numbered from Monday
Weekdays == 0..6

\* string_to_weekday with the last two arms exchanged
string_to_weekday_swapped(s) ==
    CASE s = "Monday" -> Some(0)
      [] s = "Tuesday" -> Some(1)
      [] s = "Wednesday" -> Some(2)
      [] s = "Thursday" -> Some(3)
      [] s = "Friday" -> Some(4)
      [] s = "Saturday" -> Some(6)
      [] s = "Sunday" -> Some(5)
      [] OTHER -> None

\* alarm.rs string_to_weekday
string_to_weekday(s) ==
    CASE s = "Monday" -> Some(0)
      [] s = "Tuesday" -> Some(1)
      [] s = "Wednesday" -> Some(2)
      [] s = "Thursday" -> Some(3)
      [] s = "Friday" -> Some(4)
      [] s = "Saturday" -> Some(5)
      [] s = "Sunday" -> Some(6)
      [] OTHER -> None

\* TimeDelta::num_seconds of a duration of whole seconds less a fraction
\* (frac): the seconds, truncated toward zero
num_seconds(whole, frac) == IF frac /\ whole >= 1 THEN whole - 1 ELSE whole

\* time_until_alarm(alarm), with the instant it reads as an argument.  The
\* alarm's time on today's local date is handed to from_utc_datetime, that
\* is, read as a UTC time, and compared with now: the difference is the
\* difference of the two wall-clock times plus the UTC offset.
time_until_alarm(alarm, now) ==
    LET alarm_time == ParseHM(alarm.time)
        whole == (alarm_time.h * 3600 + alarm_time.m * 60)
                    - (now.h * 3600 + now.m * 60 + now.s) + now.off
        diff == num_seconds(whole, now.frac)
    IN  IF ~alarm_time.ok THEN None
        ELSE IF diff < 0 THEN Ok(DaySeconds + diff)
        ELSE Ok(diff)

\* format!("{}", n) followed by a unit and its plural mark
Display(n) == ToString(n)

\* format_time_until with the plural given from one on
format_time_until_plural(seconds) ==
    IF seconds < 60
    THEN Display(seconds) \o " seconde" \o (IF seconds >= 1 THEN "s" ELSE "")
    ELSE IF seconds < 3600
    THEN LET minutes == seconds \div 60
         IN  Display(minutes) \o " minute" \o (IF minutes >= 1 THEN "s" ELSE "")
    ELSE LET hours == seconds \div 3600
             minutes == (seconds % 3600) \div 60
         IN  IF minutes > 0
             THEN Display(hours) \o "h " \o Display(minutes) \o "m"
             ELSE Display(hours) \o " heure" \o (IF hours >= 1 THEN "s" ELSE "")

\* format_time_until(seconds), for seconds >= 0
format_time_until(seconds) ==
    IF seconds < 60
    THEN Display(seconds) \o " seconde" \o (IF seconds > 1 THEN "s" ELSE "")
    ELSE IF seconds < 3600
    THEN LET minutes == seconds \div 60
         IN  Display(minutes) \o " minute" \o (IF minutes > 1 THEN "s" ELSE "")
    ELSE LET hours == seconds \div 3600
             minutes == (seconds % 3600) \div 60
         IN  IF minutes > 0
             THEN Display(hours) \o "h " \o Display(minutes) \o "m"
             ELSE Display(hours) \o " heure" \o (IF hours > 1 THEN "s" ELSE "")

\* the alarms handed to time_until_alarm: three times of day and a time
\* that does not parse
TimeAlarms ==
    { [FileEntry("a", 50, TRUE) EXCEPT !.time = t] :
         t \in {"07:30", "00:00", "23:59", "24:00"} }

\* the instants time_until_alarm may read from the clock
Instants ==
    [ h : {0, 7, 23}, m : {0, 29, 30, 59}, s : {0, 1, 59}, frac : BOOLEAN,
      off : {-18000, 0, 7200} ]

\* the strings handed to string_to_weekday: the seven labels and strings
\* that are close to one
DayStrings ==
    { "Monday", "Tuesday", "Wednesday", "Thursday", "Friday", "Saturday",
      "Sunday", "monday", "SUNDAY", "Mon", "Sun", "Sundays", " Monday",
      "Tuesday ", "Lundi", "Invalid", "0", "" }

\* a call whose function has not returned yet
Pending == [ok |-> FALSE, val |-> "pending"]

\* one call of one of the functions of alarm.rs, with its argument
InitTime ==
    /\ Boot
    /\ file = Absent
    /\ \/ \E alarm \in TimeAlarms, now \in Instants :
             call = [op |-> "time_until_alarm",
                     arg |-> [alarm |-> alarm, now |-> now]]
       \/ \E seconds \in 0..MaxSeconds :
             call = [op |-> "format_time_until", arg |-> seconds]
       \/ \E day \in Weekdays :
             call = [op |-> "weekday_to_string", arg |-> day]
       \/ \E str \in DayStrings :
             call = [op |-> "string_to_weekday", arg |-> str]
    /\ ret = Pending

TimeUntilAlarm ==
    /\ call.op = "time_until_alarm"
    /\ ret = Pending
    /\ ret' = time_until_alarm(call.arg.alarm, call.arg.now)
    /\ UNCHANGED <<phase, alarms, file, nextId, faults, synced, saved, call,
                   pre, streak, mutex, th, lin, spotify_client, audio, wire>>

FormatTimeUntil ==
    /\ call.op = "format_time_until"
    /\ ret = Pending
    /\ ret' = Ok(format_time_until(call.arg))
    /\ UNCHANGED <<phase, alarms, file, nextId, faults, synced, saved, call,
                   pre, streak, mutex, th, lin, spotify_client, audio, wire>>

WeekdayToString ==
    /\ call.op = "weekday_to_string"
    /\ ret = Pending
    /\ ret' = Ok(weekday_to_string(call.arg))
    /\ UNCHANGED <<phase, alarms, file, nextId, faults, synced, saved, call,
                   pre, streak, mutex, th, lin, spotify_client, audio, wire>>

StringToWeekday ==
    /\ call.op = "string_to_weekday"
    /\ ret = Pending
    /\ ret' = string_to_weekday(call.arg)
    /\ UNCHANGED <<phase, alarms, file, nextId, faults, synced, saved, call,
                   pre, streak, mutex, th, lin, spotify_client, audio, wire>>

\* string_to_weekday applied to the label weekday_to_string returned
LabelToWeekday ==
    /\ call.op = "weekday_to_string"
    /\ ret # Pending
    /\ call' = [op |-> "string_to_weekday", arg |-> ret.val]
    /\ ret' = string_to_weekday(ret.val)
    /\ UNCHANGED <<phase, alarms, file, nextId, faults, synced, saved, pre,
                   streak, mutex, th, lin, spotify_client, audio, wire>>

NextTime ==
    \/ TimeUntilAlarm
    \/ FormatTimeUntil
    \/ WeekdayToString
    \/ StringToWeekday
    \/ LabelToWeekday

SpecTime == InitTime /\ [][NextTime]_vars

(***************************************************************************)
(* The music-service session, the fallback tone and the dispatch of a      *)
(* matched alarm to one of them.                                           *)
(***************************************************************************)
\* the alarms check_alarms may hand to the dispatcher: the two it can
\* create here, and a restored one whose uri names no playlist
Matched ==
    { NewAlarm(in, Uuid(1)) : in \in { i \in AlarmInputs : ParseHM(i.time).ok } }
       \cup { [FileEntry("a", 40, TRUE) EXCEPT !.playlist_uri = "spotify:track:9"] }

\* the volumes passed to set_spotify_volume, a u8
VolumeInputs == {0, 100, 150}

\* the registry, the file and the threads stay as they are
PlayFrame ==
    UNCHANGED <<phase, alarms, file, nextId, faults, synced, saved, mutex,
                th, lin>>

spotify_login ==
    /\ phase = "running"
    /\ spotify_client' = get_auth_url(SpotifyClient_new)
    /\ wire' = <<>>
    /\ Log("spotify_login", NoArg, Ok("auth_url"))
    /\ UNCHANGED audio
    /\ PlayFrame

spotify_callback(token) ==
    /\ phase = "running"
    /\ IF spotify_client.some
       THEN LET r == complete_auth(spotify_client, token)
            IN  /\ spotify_client' = r.c
                /\ wire' = r.sent
                /\ Log("spotify_callback", token,
                       IF r.ok THEN Ok("-") ELSE Err)
       ELSE /\ Log("spotify_callback", token, Err)
            /\ wire' = <<>>
            /\ UNCHANGED spotify_client
    /\ UNCHANGED audio
    /\ PlayFrame

is_spotify_authenticated ==
    /\ phase = "running"
    /\ Log("is_spotify_authenticated", NoArg,
           Ok(Authenticated(spotify_client)))
    /\ wire' = <<>>
    /\ UNCHANGED <<spotify_client, audio>>
    /\ PlayFrame

get_spotify_playlists(api) ==
    /\ phase = "running"
    /\ LET r == IF spotify_client.some THEN get_playlists(spotify_client, api)
                ELSE [ok |-> FALSE, sent |-> <<>>]
       IN  /\ wire' = r.sent
           /\ Log("get_spotify_playlists", NoArg,
                  IF r.ok THEN Ok("playlists") ELSE Err)
    /\ UNCHANGED <<spotify_client, audio>>
    /\ PlayFrame

play_spotify_playlist(playlist_uri, remote) ==
    /\ phase = "running"
    /\ LET r == PlayRemote(spotify_client, playlist_uri, remote)
       IN  /\ wire' = r.sent
           /\ Log("play_spotify_playlist", playlist_uri,
                  IF r.ok THEN Ok("-") ELSE Err)
    /\ UNCHANGED <<spotify_client, audio>>
    /\ PlayFrame

set_spotify_volume(volume, api) ==
    /\ phase = "running"
    /\ LET r == IF spotify_client.some
                THEN set_volume(spotify_client, volume, api)
                ELSE [ok |-> FALSE, sent |-> <<>>]
       IN  /\ wire' = r.sent
           /\ Log("set_spotify_volume", volume, IF r.ok THEN Ok("-") ELSE Err)
    /\ UNCHANGED <<spotify_client, audio>>
    /\ PlayFrame

play_local_alarm(out) ==
    /\ phase = "running"
    /\ LET r == play_alarm_sound(audio, out)
       IN  /\ audio' = r.audio
           /\ Log("play_local_alarm", NoArg, IF r.ok THEN Ok("-") ELSE Err)
    /\ wire' = <<>>
    /\ UNCHANGED spotify_client
    /\ PlayFrame

stop_local_alarm ==
    /\ phase = "running"
    /\ audio' = stop_alarm_sound(audio).audio
    /\ Log("stop_local_alarm", NoArg, Ok("-"))
    /\ wire' = <<>>
    /\ UNCHANGED spotify_client
    /\ PlayFrame

\* the dispatcher: remote play if the client reports authenticated, the
\* fallback tone if it does not or if the remote play fails.  What it did
\* is its result: auth, the result of the remote play and whether the
\* playback started, the result of the tone ("-": not invoked)
Dispatch(alarm, remote, out) ==
    /\ phase = "running"
    /\ LET auth == Authenticated(spotify_client)
           r == PlayRemote(spotify_client, alarm.playlist_uri, remote)
           fallback == ~auth \/ ~r.ok
           tone == play_alarm_sound(audio, out)
       IN  /\ audio' = IF fallback THEN tone.audio ELSE audio
           /\ wire' = IF auth THEN r.sent ELSE <<>>
           /\ Log("dispatch", alarm,
                  Ok([ auth |-> auth,
                       remote |-> IF ~auth THEN "-"
                                  ELSE IF r.ok THEN "ok" ELSE "err",
                       started |-> auth /\ r.started,
                       tone |-> IF ~fallback THEN "-"
                                ELSE IF tone.ok THEN "ok" ELSE "err" ]))
    /\ UNCHANGED spotify_client
    /\ PlayFrame

NextPlay ==
    \/ Setup
    \/ spotify_login
    \/ \E token \in TokenOutcomes : spotify_callback(token)
    \/ is_spotify_authenticated
    \/ \E api \in ApiOutcomes : get_spotify_playlists(api)
    \/ \E a \in Matched, remote \in RemoteOutcomes :
          play_spotify_playlist(a.playlist_uri, remote)
    \/ \E volume \in VolumeInputs, api \in ApiOutcomes :
          set_spotify_volume(volume, api)
    \/ \E out \in AudioOutcomes : play_local_alarm(out)
    \/ stop_local_alarm
    \/ \E a \in Matched, remote \in RemoteOutcomes, out \in AudioOutcomes :
          Dispatch(a, remote, out)

SpecPlay == Init /\ [][NextPlay]_vars

(***************************************************************************)
(* Properties.                                                             *)
(***************************************************************************)

\* C1: set_alarm on an empty registry followed by get_alarms yields exactly
\* one record, whose time is the input string and whose volume is the
\* smaller of the input volume and 100.
C1_CreateThenList ==
    [][ ( /\ call.op = "set_alarm" /\ ret.ok /\ pre.alarms = <<>>
          /\ call'.op = "get_alarms" )
        => /\ ret'.ok
           /\ Len(ret'.val) = 1
           /\ ret'.val[1].time = call.arg.time
           /\ ret'.val[1].volume =
                 IF call.arg.volume > 100 THEN 100 ELSE call.arg.volume ]_vars

\* get_alarms has answered right after the first set_alarm of a process that
\* started empty, and the input volume 150 was stored as 100
C1_Witness ==
    /\ call.op = "get_alarms" /\ nextId = 1 /\ faults = 0
    /\ file = Text(ToJson(ret.val))
    /\ Len(ret.val) = 1
    /\ ret.val[1].playlist_name = "Chill"
    /\ ret.val[1].volume = 100

\* C2: every stored record has its volume in 0..100, in every state.
C2_VolumeInRange ==
    \A i \in 1..Len(alarms) : alarms[i].volume \in 0..100

\* C3: no two records of the registry have the same id, and no command
\* changes the id of a record that stays in the registry.
C3_IdsUniqueAndFixed ==
    /\ [](\A i, j \in 1..Len(alarms) : alarms[i].id = alarms[j].id => i = j)
    /\ [][ call'.op \in {"set_alarm", "get_alarms", "toggle_alarm",
                         "check_alarms"}
           => \A i \in 1..Len(alarms) :
                 Len(alarms') >= i /\ alarms'[i].id = alarms[i].id ]_vars

\* C4: toggle_alarm(id) called twice in a row, for an id of the registry,
\* leaves the registry as it was before the first call, and the second call
\* returns the active value the record had before the first.
C4_ToggleTwice ==
    [][ ( /\ call.op = "toggle_alarm" /\ ret.ok
          /\ call'.op = "toggle_alarm" /\ call'.arg = call.arg )
        => /\ ret'.ok
           /\ alarms' = pre.alarms
           /\ \E i \in 1..Len(pre.alarms) :
                 /\ pre.alarms[i].id = call.arg
                 /\ \A j \in 1..(i - 1) : pre.alarms[j].id # call.arg
                 /\ ret'.val = pre.alarms[i].active ]_vars

\* the second of two successive toggle_alarm calls with the same id returned
C4_Witness ==
    /\ call.op = "toggle_alarm" /\ ret.ok /\ streak = 2
    /\ ret.val = TRUE
    /\ Len(alarms) = 2

\* C5: delete_alarm with an id that no record has returns an error and
\* leaves the registry (length, records, order) and the file as they were.
C5_DeleteAbsent ==
    ( /\ call.op = "delete_alarm"
      /\ \A i \in 1..Len(pre.alarms) : pre.alarms[i].id # call.arg )
    => /\ ~ret.ok
       /\ alarms = pre.alarms
       /\ file = pre.file

\* delete_alarm failed on a registry of two records whose file is behind: a
\* save would have shown
C5_Witness ==
    /\ call.op = "delete_alarm" /\ ~ret.ok
    /\ Len(alarms) = 2
    /\ file # Text(ToJson(alarms))

\* C6: set_alarm with a time that is no HH:MM, and toggle_alarm with an id
\* that no record has, return an error and leave the registry and the file
\* as they were.
C6_ErrorsDoNotMutate ==
    /\ ( call.op = "set_alarm" /\ call.arg.time \in {"24:00", "07h30"} )
       => ( ~ret.ok /\ alarms = pre.alarms /\ file = pre.file )
    /\ ( /\ call.op = "toggle_alarm"
         /\ \A i \in 1..Len(pre.alarms) : pre.alarms[i].id # call.arg )
       => ( ~ret.ok /\ alarms = pre.alarms /\ file = pre.file )

\* set_alarm rejected the hour 24 on a registry whose file is behind
C6_Witness ==
    /\ call.op = "set_alarm" /\ call.arg.time = "24:00" /\ ~ret.ok
    /\ alarms # <<>>
    /\ file # Text(ToJson(alarms))

\* C7: save_alarms followed by load_alarms returns the records saved: same
\* length, same order, every field equal; for every registry reached, the
\* empty one included.
C7_RoundTrip ==
    load_alarms(save_alarms(file, alarms, "ok"), "ok") =
       [ok |-> TRUE, val |-> alarms]

\* a process loaded at startup the two records its predecessor created and
\* saved, one of them toggled off
C7_Witness ==
    /\ call.op = "setup" /\ ret.ok
    /\ Len(alarms) = 2
    /\ alarms[1].id = Uuid(1) /\ alarms[2].id = Uuid(2)
    /\ ~alarms[1].active /\ alarms[2].active
    /\ file = Text(ToJson(alarms))

\* the eligibility rule as the specification words it: active, time equal
\* to the zero-padded HH:MM of now, days empty or holding today's label
HHMM(now) ==
    CASE now.h = 7 /\ now.m = 30 -> "07:30"
      [] now.h = 7 /\ now.m = 31 -> "07:31"

DayLabel(now) ==
    << "Monday", "Tuesday", "Wednesday", "Thursday", "Friday", "Saturday",
       "Sunday" >>[now.wd + 1]

Eligible(a, now) ==
    /\ a.active
    /\ a.time = HHMM(now)
    /\ (Len(a.days) = 0 \/ DayLabel(now) \in { a.days[i] : i \in 1..Len(a.days) })

\* C8: a record matches at now iff it is active, its time is the zero-padded
\* HH:MM of now and its days are empty or hold the weekday of now; so what
\* check_alarms returns is eligible, and an inactive alarm, or an alarm of
\* Monday on another weekday, is not returned.
C8_Eligibility ==
    /\ \A i \in 1..Len(alarms) : \A now \in Nows :
          /\ Matches(alarms[i], FormatHM(now), weekday_to_string(now.wd))
                <=> Eligible(alarms[i], now)
          /\ should_trigger(alarms[i], now) <=> Eligible(alarms[i], now)
    /\ call.op = "check_alarms" =>
          /\ \A i \in 1..Len(ret.val) :
                /\ Eligible(ret.val[i], call.arg)
                /\ \E k \in 1..Len(alarms) : alarms[k] = ret.val[i]
          /\ ret.val = <<>> =>
                \A k \in 1..Len(alarms) : ~Eligible(alarms[k], call.arg)

\* check_alarms found nothing on a Tuesday at 07:30 although the registry
\* holds an active alarm of 07:30 for Mondays
C8_Witness ==
    /\ call.op = "check_alarms" /\ call.arg = [h |-> 7, m |-> 30, wd |-> 1]
    /\ ret.val = <<>>
    /\ \E i \in 1..Len(alarms) :
          /\ alarms[i].active
          /\ alarms[i].time = "07:30"
          /\ alarms[i].days = <<"Monday">>

\* C9: check_alarms returns at most one record: the eligible record of the
\* smallest position, and None exactly when no record is eligible.
C9_FirstEligible ==
    call.op = "check_alarms" =>
       LET elig == { i \in 1..Len(alarms) : Eligible(alarms[i], call.arg) }
       IN  /\ ret.ok
           /\ Len(ret.val) <= 1
           /\ (ret.val = <<>>) <=> (elig = {})
           /\ elig # {} =>
                 \E i \in elig :
                    /\ \A j \in elig : i <= j
                    /\ ret.val = <<alarms[i]>>

\* two different records were eligible and check_alarms returned the first
C9_Witness ==
    /\ call.op = "check_alarms"
    /\ Len(alarms) = 2
    /\ Eligible(alarms[1], call.arg) /\ Eligible(alarms[2], call.arg)
    /\ alarms[1].id # alarms[2].id
    /\ ret.val = <<alarms[1]>>

\* C10, as stated: concurrent commands are serialised by the lock: at most
\* one command is between its lock() and its return; whenever none is, the
\* registry is the one obtained by running the commands one at a time in
\* the order of their lock(), every command returns what it returns in
\* that order, and, if the last save has not failed, the file decodes to
\* the registry.
C10_AsStated ==
    /\ Cardinality(Holding) <= 1
    /\ \A t \in Threads : th[t].pc = "return" => th[t].res = th[t].exp
    /\ Holding = {} => alarms = lin
    /\ (Holding = {} /\ phase = "running" /\ faults = 0)
          => load_alarms(file, "ok") = [ok |-> TRUE, val |-> alarms]

\* C10, amended: the same, the file decoding to the registry once the
\* process has loaded the file at startup or completed a save.
C10_Serialised ==
    /\ Cardinality(Holding) <= 1
    /\ \A t \in Threads : th[t].pc = "return" => th[t].res = th[t].exp
    /\ Holding = {} => alarms = lin
    /\ (Holding = {} /\ phase = "running" /\ faults = 0 /\ synced)
          => load_alarms(file, "ok") = [ok |-> TRUE, val |-> alarms]

\* one thread returns from a toggle_alarm that found its record while the
\* other waits for the lock with a command that changes the registry
C10_Witness ==
    /\ th[1].pc = "return" /\ th[1].op = "toggle_alarm" /\ th[1].res.ok
    /\ th[2].pc = "lock" /\ th[2].op \in {"toggle_alarm", "delete_alarm"}
    /\ th[2].arg = th[1].arg

\* the commands that change the registry
Mutators == {"set_alarm", "toggle_alarm", "delete_alarm"}

\* the last command called save_alarms
SaveCalled == saved.io \in {"ok", "fail", "torn"}

\* the persistence step of the last command failed
SaveFailed == saved.io \in {"nodir", "fail", "torn"}

\* C11, as stated: when set_alarm, toggle_alarm or delete_alarm returns Ok,
\* save_alarms has been called with the registry as the command left it,
\* and if the save succeeded the file holds exactly that registry.
C11_AsStated ==
    (call.op \in Mutators /\ ret.ok)
    => /\ SaveCalled
       /\ saved.io = "ok" => (file = Text(ToJson(alarms)) /\ saved.kept = alarms)

\* C11, amended: when set_alarm, toggle_alarm or delete_alarm returns Ok, the
\* persistence step has run on the registry as the command left it:
\* save_alarms was called unless the data directory could not be resolved,
\* and if the save succeeded the file holds exactly that registry.
C11_PersistBeforeOk ==
    (call.op \in Mutators /\ ret.ok)
    => /\ saved.io # "none"
       /\ saved.io # "nodir" => SaveCalled
       /\ saved.io = "ok" => (file = Text(ToJson(alarms)) /\ saved.kept = alarms)

\* delete_alarm returned Ok and its save replaced a file of two records by
\* a file of one
C11_Witness ==
    /\ call.op = "delete_alarm" /\ ret.ok /\ saved.io = "ok"
    /\ Len(pre.alarms) = 2 /\ Len(alarms) = 1
    /\ pre.file = Text(ToJson(pre.alarms))
    /\ file = Text(ToJson(alarms))

\* the last command, a successful mutation, is applied to the registry
Applied ==
    CASE call.op = "set_alarm" ->
            /\ ret.val.active
            /\ alarms = Append(pre.alarms, ret.val)
      [] call.op = "toggle_alarm" ->
            \E i \in 1..Len(pre.alarms) :
               /\ pre.alarms[i].id = call.arg
               /\ ret.val = ~pre.alarms[i].active
               /\ alarms = [pre.alarms EXCEPT ![i].active = ret.val]
      [] call.op = "delete_alarm" ->
            /\ Len(alarms) < Len(pre.alarms)
            /\ \A i \in 1..Len(alarms) : alarms[i].id # call.arg

\* C12, as stated: when the persistence step of set_alarm, toggle_alarm or
\* delete_alarm fails (save_alarms fails, or the data directory cannot be
\* resolved), the command returns Ok, its change stays in the registry and
\* the file keeps the content it had.
C12_AsStated ==
    (call.op \in Mutators /\ SaveFailed)
    => (ret.ok /\ Applied /\ file = pre.file)

\* C12, amended: the same, the file keeping its content when the failure
\* comes before fs::write has opened the file.
C12_NonFatal ==
    /\ (call.op \in Mutators /\ SaveFailed) => (ret.ok /\ Applied)
    /\ (call.op \in Mutators /\ saved.io \in {"nodir", "fail"})
          => file = pre.file

\* toggle_alarm returned Ok although save_alarms failed: the registry has
\* the flipped record, the file still the old one
C12_Witness ==
    /\ call.op = "toggle_alarm" /\ ret.ok /\ saved.io = "fail"
    /\ pre.file = Text(ToJson(pre.alarms))
    /\ file = pre.file
    /\ alarms # pre.alarms

\* C13, as stated: after a stop and the next startup, the registry is the
\* collection written by the last save that succeeded; and, the saves
\* having succeeded, it is the registry as it was when the process stopped.
C13_AsStated ==
    [][ (call.op = "stop" /\ call'.op = "setup")
        => /\ alarms' = saved.kept
           /\ (faults = 0 /\ synced) => alarms' = pre.alarms ]_vars

\* C13, amended: the same when load_alarms returns Ok at that startup;
\* when it returns an error the registry restarts empty.
C13_Restart ==
    [][ (call.op = "stop" /\ call'.op = "setup")
        => IF ret'.ok
           THEN /\ alarms' = saved.kept
                /\ (faults = 0 /\ synced) => alarms' = pre.alarms
           ELSE alarms' = <<>> ]_vars

\* a process restarted after a save that failed: it holds the alarm its
\* predecessor created, as the last save that succeeded wrote it
C13_Witness ==
    /\ call.op = "setup" /\ ret.ok /\ faults = 1
    /\ Len(alarms) = 1
    /\ alarms[1].id = Uuid(1)
    /\ alarms = saved.kept

\* C14: the restore at startup makes the registry exactly the records
\* loaded, none dropped, none altered, and writes nothing: the file is as
\* it was.
C14_RestoreWholesale ==
    (call.op = "setup" /\ ret.ok)
    => /\ file = pre.file
       /\ pre.file = Absent => alarms = <<>>
       /\ pre.file # Absent => Text(ToJson(alarms)) = pre.file

\* startup restored the two records of a hand-written file, the volume
\* 150 and the repeated id included
C14_Witness ==
    /\ call.op = "setup" /\ ret.ok
    /\ Len(alarms) = 2
    /\ alarms[1].volume = 150
    /\ alarms[2].id = alarms[1].id
    /\ file = pre.file

\* C15: startup always completes; without a file load_alarms returns Ok
\* and the registry is empty; with a file that cannot be read or parsed it
\* returns an error and the registry is empty.
C15_StartupDegrades ==
    call.op = "setup"
    => /\ phase = "running"
       /\ (pre.file = Absent /\ call.arg # "nodir")
             => (ret.ok /\ alarms = <<>>)
       /\ (pre.file # Absent /\ (call.arg = "fail" \/ pre.file = Text(Garbage)))
             => (~ret.ok /\ alarms = <<>>)
       /\ call.arg = "nodir" => alarms = <<>>

\* startup found the file truncated by a failed write, after a save that
\* had succeeded, and went on with an empty registry
C15_Witness ==
    /\ call.op = "setup" /\ ~ret.ok /\ call.arg = "ok"
    /\ pre.file = Text(Garbage)
    /\ saved.kept # <<>>
    /\ phase = "running" /\ alarms = <<>>

\* C19: no record of the registry names the same weekday twice in days.
C19_NoDuplicateDays ==
    \A i \in 1..Len(alarms) :
       \A j, k \in 1..Len(alarms[i].days) :
          alarms[i].days[j] = alarms[i].days[k] => j = k

\* the seconds from the wall-clock time of now to the next time the clock
\* shows the time of the alarm: today if it is still to come, else tomorrow
NextOccurrence(alarm, now) ==
    LET t == CASE alarm.time = "07:30" -> 7 * 3600 + 30 * 60
               [] alarm.time = "00:00" -> 0
               [] alarm.time = "23:59" -> 23 * 3600 + 59 * 60
        d == t - (now.h * 3600 + now.m * 60 + now.s)
    IN  IF d >= 0 THEN d ELSE d + 86400

\* C16: for an alarm whose time parses, at every instant and every UTC
\* offset, time_until_alarm returns a number that is not negative and is
\* the time to the next occurrence of the alarm's time of day (less than
\* one second apart, the fraction of the second being dropped).
C16_NextOccurrence ==
    ( /\ call.op = "time_until_alarm" /\ ret # Pending
      /\ call.arg.alarm.time # "24:00" )
    => /\ ret.ok
       /\ ret.val >= 0
       /\ NextOccurrence(call.arg.alarm, call.arg.now) - ret.val \in {0, 1}

\* C17: for an alarm whose time is the current minute, at any second of
\* that minute, time_until_alarm returns a value in 0..59.
C17_CurrentMinute ==
    ( /\ call.op = "time_until_alarm" /\ ret # Pending
      /\ call.arg.alarm.time = "07:30"
      /\ call.arg.now.h = 7 /\ call.arg.now.m = 30 )
    => (ret.ok /\ ret.val \in 0..59)

\* the rendering of a duration as the rules word it
Plural(n) == IF n > 1 THEN "s" ELSE ""

Rendered(s) ==
    CASE s < 60 -> ToString(s) \o " seconde" \o Plural(s)
      [] s >= 60 /\ s < 3600 ->
            ToString(s \div 60) \o " minute" \o Plural(s \div 60)
      [] s >= 3600 /\ (s % 3600) \div 60 # 0 ->
            ToString(s \div 3600) \o "h " \o ToString((s % 3600) \div 60)
               \o "m"
      [] s >= 3600 /\ (s % 3600) \div 60 = 0 ->
            ToString(s \div 3600) \o " heure" \o Plural(s \div 3600)

\* the renderings the tests of alarm.rs give
Examples ==
    { <<30, "30 secondes">>, <<1, "1 seconde">>, <<90, "1 minute">>,
      <<180, "3 minutes">>, <<3600, "1 heure">>, <<7200, "2 heures">>,
      <<3661, "1h 1m">> }

\* C18: format_time_until renders s < 60 as seconds, 60 <= s < 3600 as
\* whole minutes, s >= 3600 as "<h>h <m>m" if the minutes left are not
\* zero and else as whole hours, each unit in the plural above one; so 30
\* gives "30 secondes", 1 "1 seconde", 90 "1 minute", 180 "3 minutes", 3600
\* "1 heure", 7200 "2 heures" and 3661 "1h 1m".
C18_FormatRules ==
    (call.op = "format_time_until" /\ ret # Pending)
    => /\ ret.val = Rendered(call.arg)
       /\ \A e \in Examples : call.arg = e[1] => ret.val = e[2]

\* format_time_until rendered 3661 seconds
C18_Witness ==
    /\ call.op = "format_time_until"
    /\ call.arg = 3661
    /\ ret.val = "1h 1m"

\* C20: for a matched alarm, if the client reports authenticated the
\* remote play of the alarm's playlist is invoked; if the client is absent
\* or not authenticated, or the remote play fails, the fallback tone is
\* invoked; so either the remote playback has started or the tone has
\* been invoked.
C20_Dispatch ==
    call.op = "dispatch"
    => LET d == ret.val
       IN  /\ (spotify_client.some /\ spotify_client.authenticated)
                 => d.remote # "-"
           /\ (~spotify_client.some \/ ~spotify_client.authenticated)
                 => (d.remote = "-" /\ d.tone # "-")
           /\ d.remote = "err" => d.tone # "-"
           /\ ~d.started => d.tone # "-"
           /\ d.started => PlaylistIdOk(call.arg.playlist_uri)

\* an authenticated client could not start the playback, no device being
\* active, and the tone plays
C20_Witness ==
    /\ call.op = "dispatch"
    /\ spotify_client.authenticated
    /\ ret.val.remote = "err" /\ ~ret.val.started
    /\ ret.val.tone = "ok"
    /\ audio = "playing"

\* C21: a successful toggle_alarm(id) flips the active flag of exactly one
\* record, which has that id, returns the new active value of that record,
\* and leaves as they were the other fields of that record, every other
\* record, and the length and the order of the registry.
C21_ToggleFrame ==
    ( call.op = "toggle_alarm" /\ ret.ok )
    => /\ Len(alarms) = Len(pre.alarms)
       /\ \E i \in 1..Len(alarms) :
             /\ pre.alarms[i].id = call.arg
             /\ alarms[i].active = ~pre.alarms[i].active
             /\ ret.val = alarms[i].active
             /\ DOMAIN alarms[i] = DOMAIN pre.alarms[i]
             /\ \A f \in DOMAIN alarms[i] \ {"active"} :
                   alarms[i][f] = pre.alarms[i][f]
             /\ \A j \in 1..Len(alarms) : j # i => alarms[j] = pre.alarms[j]

\* toggle_alarm succeeded on a registry whose two records have the id given:
\* the first was switched off, the second is as it was
C21_Witness ==
    /\ call.op = "toggle_alarm" /\ ret.ok /\ call.arg = "a"
    /\ Len(alarms) = 2
    /\ alarms[2].id = "a"
    /\ pre.alarms[1].active /\ ~alarms[1].active
    /\ ret.val = FALSE

\* the positions of as whose record has another id than the one given
Others(as, id) == { i \in 1..Len(as) : as[i].id # id }

\* the number of positions of the set ps up to position i
Rank(ps, i) == Cardinality({ j \in ps : j <= i })

Readers == {"check_alarms", "get_alarms"}

\* C23: check_alarms and get_alarms change neither the registry nor the
\* file (the record check_alarms returns stays in the registry, active), and
\* a check_alarms that follows a check_alarms of the same minute, with no
\* other command in between, returns what the first returned.
C23_ReadOnly ==
    /\ [][ call'.op \in Readers => ( alarms' = alarms /\ file' = file ) ]_vars
    /\ []( ( call.op = "check_alarms" /\ ret.val # <<>> )
           => \E i \in 1..Len(alarms) :
                 alarms[i] = ret.val[1] /\ alarms[i].active )
    /\ [][ ( /\ call.op = "check_alarms"
             /\ call'.op = "check_alarms" /\ call'.arg = call.arg )
           => ret' = ret ]_vars

\* check_alarms returned a record for the second time in the same minute,
\* on a registry the file does not reflect
C23_Witness ==
    /\ call.op = "check_alarms" /\ streak = 2
    /\ ret.val # <<>>
    /\ ret.val[1].id = Uuid(1)
    /\ file # Text(ToJson(alarms))

\* the seven weekday labels
DayLabels ==
    { "Monday", "Tuesday", "Wednesday", "Thursday", "Friday", "Saturday",
      "Sunday" }

\* C24: string_to_weekday applied to the label weekday_to_string gives a
\* weekday returns that weekday; the labels of the seven weekdays are the
\* seven of DayLabels, pairwise distinct; and string_to_weekday returns None
\* for every string that is none of them.
C24_WeekdayRoundTrip ==
    /\ ( call.op = "weekday_to_string" /\ ret # Pending )
       => /\ ret.val \in DayLabels
          /\ \A day \in Weekdays \ {call.arg} :
                weekday_to_string(day) # ret.val
    /\ ( call.op = "string_to_weekday" /\ ret # Pending )
       => /\ \A day \in Weekdays :
                call.arg = weekday_to_string(day)
                   => ( ret.ok /\ ret.val = day )
          /\ call.arg \notin DayLabels => ~ret.ok

\* the label of Sunday, the last weekday, was given back to string_to_weekday
\* and Sunday came out
C24_Witness ==
    /\ call.op = "string_to_weekday" /\ call.arg = "Sunday"
    /\ ret.ok /\ ret.val = 6

\* the commands that ask the music service for something on behalf of the
\* user
Remote == {"get_spotify_playlists", "play_spotify_playlist",
           "set_spotify_volume"}

\* C25: the music-service session.  is_spotify_authenticated returns FALSE
\* at start, and comes to return TRUE only by a spotify_callback that
\* succeeds on a client a spotify_login installed; a spotify_callback that
\* fails, and every command other than these two, leaves the client as it
\* was; every spotify_login leaves a client that is not authenticated; and
\* on a client that is absent or not authenticated the playlist, play and
\* volume commands return an error and send the service nothing.
C25_Session ==
    /\ call.op = "manage" => ~Authenticated(spotify_client)
    /\ call.op = "is_spotify_authenticated"
       => ret.val = (spotify_client.some /\ spotify_client.authenticated)
    /\ ( Authenticated(spotify_client) /\ ~Authenticated(pre.client) )
       => ( call.op = "spotify_callback" /\ ret.ok /\ pre.client.some )
    /\ ( spotify_client.some /\ ~pre.client.some )
       => call.op = "spotify_login"
    /\ ( call.op = "spotify_callback" /\ ~ret.ok )
       => spotify_client = pre.client
    /\ ( call.op = "spotify_callback" /\ ret.ok )
       => Authenticated(spotify_client)
    /\ call.op \notin {"spotify_callback", "spotify_login"}
       => spotify_client = pre.client
    /\ call.op = "spotify_login"
       => ( spotify_client.some /\ ~spotify_client.authenticated /\ wire = <<>> )
    /\ ( call.op \in Remote /\ ~Authenticated(pre.client) )
       => ( ~ret.ok /\ wire = <<>> )

\* the play command was refused, and sent nothing, on a client that a
\* spotify_login installed and no spotify_callback has authenticated since
C25_Witness ==
    /\ call.op = "play_spotify_playlist" /\ ~ret.ok
    /\ wire = <<>>
    /\ spotify_client.some /\ spotify_client.client
    /\ ~spotify_client.authenticated

====
